---- MODULE Spec2Model ----
(***************************************************************************)
(* A model of the jobster REST API: the authentication and test-user       *)
(* middleware, the auth controller (register / login / updateUser) with    *)
(* the User model's pre-save hook, and the jobs controller (getAllJobs,    *)
(* getJob, createJob, updateJob, deleteJob, showStats).                    *)
(*                                                                         *)
(* Text that the code inspects character by character (the Authorization   *)
(* header, the page/limit query strings, position/search) is a sequence of *)
(* one-character strings; text the code only compares as a whole (status,  *)
(* jobType, sort, company, ids) is a TLA+ string.                          *)
(***************************************************************************)
EXTENDS Integers, Sequences, FiniteSets, TLC

VARIABLES
    users,      \* the User collection: user id -> document
    issued,     \* the session tokens the server has signed so far
    jobs,       \* the Job collection: a set of documents
    nextJobId,  \* the next _id the storage layer hands out
    pending,    \* a getAllJobs request suspended between its two awaits
    last,       \* the request handled last and the response it got
    mwReq,      \* authentication middleware alone: the request it is given
    mwOut,      \* authentication middleware alone: what it did with it
    query,      \* pagination alone: the page and limit query strings
    paging,     \* pagination alone: jobsPerPage and jobsToSkip computed
    regLog      \* history: the password and the hash of each registration

vars == <<users, issued, jobs, nextJobId, pending, last, mwReq, mwOut, query, paging, regLog>>
userVars == <<users, issued, regLog>>
jobVars == <<jobs, nextJobId, pending>>
pureVars == <<mwReq, mwOut, query, paging>>

----------------------------------------------------------------------------
(* Bounds of the model *)

MaxJobs == 2        \* job documents ever created
MaxUsers == 2       \* user documents ever registered (SpecUsers)

----------------------------------------------------------------------------
(* JavaScript values *)

\* an absent (undefined) string made of characters, and a present one
Undefined == [has |-> FALSE, str |-> <<>>]
Chars(s) == [has |-> TRUE, str |-> s]
\* an absent (undefined) whole-value string, and a present one
Missing == [has |-> FALSE, str |-> ""]
Text(s) == [has |-> TRUE, str |-> s]

\* truthiness of an optional string: undefined and '' are falsy
TruthyChars(v) == v.has /\ v.str # <<>>
TruthyText(v) == v.has /\ v.str # ""

Digits == <<"0", "1", "2", "3", "4", "5", "6", "7", "8", "9">>
IsDigit(c) == \E i \in 1..10 : Digits[i] = c
DigitVal(c) == (CHOOSE i \in 1..10 : Digits[i] = c) - 1

RECURSIVE DecVal(_)
DecVal(s) ==
    IF s = <<>> THEN 0
    ELSE 10 * DecVal(SubSeq(s, 1, Len(s) - 1)) + DigitVal(s[Len(s)])

AllDigits(s) == \A i \in 1..Len(s) : IsDigit(s[i])

NaN == [nan |-> TRUE, val |-> 0]
Num(n) == [nan |-> FALSE, val |-> n]

\* Number(v): undefined -> NaN, '' -> 0, an optionally signed run of
\* digits -> its value, anything else -> NaN
Number(v) ==
    IF ~v.has THEN NaN
    ELSE IF v.str = <<>> THEN Num(0)
    ELSE IF AllDigits(v.str) THEN Num(DecVal(v.str))
    ELSE IF v.str[1] = "-" /\ Len(v.str) > 1 /\ AllDigits(Tail(v.str))
         THEN Num(0 - DecVal(Tail(v.str)))
    ELSE NaN

\* x || d on numbers: NaN and 0 (and -0) are falsy
OrElse(x, d) == IF x.nan \/ x.val = 0 THEN d ELSE x.val

\* Math.ceil(a / b) for a >= 0 and b # 0 (-0 prints as 0)
Ceil(a, b) == IF b > 0 THEN (a + b - 1) \div b ELSE 0 - (a \div (0 - b))

----------------------------------------------------------------------------
(* Session tokens (jsonwebtoken) *)

DemoId == "63d23f7fef91ba4d41fa3416"
UserIds == {DemoId, "u1", "u2"}
Names == {"ann", "bob"}

\* jwt.sign({ userId, name }, secret): one token per payload
createJWT(userId, name) ==
    CASE userId = DemoId /\ name = "ann" -> "jwt.demo.ann"
      [] userId = DemoId /\ name = "bob" -> "jwt.demo.bob"
      [] userId = "u1" /\ name = "ann" -> "jwt.u1.ann"
      [] userId = "u1" /\ name = "bob" -> "jwt.u1.bob"
      [] userId = "u2" /\ name = "ann" -> "jwt.u2.ann"
      [] userId = "u2" /\ name = "bob" -> "jwt.u2.bob"

SignedTokens == {createJWT(u, n) : u \in UserIds, n \in Names}
\* tokens that jwt.verify rejects: a wrong signature, an expired one
ForgedTokens == {"jwt.forged", "jwt.expired"}

Payload(t) ==
    CHOOSE p \in [userId : UserIds, name : Names] : createJWT(p.userId, p.name) = t

\* jwt.verify(token, secret) on the text after the first space: it throws
\* unless that text is exactly one token signed by the server
Verifies(tok) == tok.has /\ Len(tok.str) = 1 /\ tok.str[1] \in SignedTokens

----------------------------------------------------------------------------
(* Authentication middleware *)

Bearer == <<"B", "e", "a", "r", "e", "r">>

startsWith(s, p) == Len(s) >= Len(p) /\ SubSeq(s, 1, Len(p)) = p

\* the index of the first separator at or after i, Len(s) + 1 when none
RECURSIVE NextSep(_, _, _)
NextSep(s, sep, i) ==
    IF i > Len(s) \/ s[i] = sep THEN i ELSE NextSep(s, sep, i + 1)

\* s.split(sep)[1]: the text between the first and the second separator,
\* undefined when s holds no separator
SplitSecond(s, sep) ==
    LET a == NextSep(s, sep, 1) IN
    IF a > Len(s) THEN Undefined
    ELSE Chars(SubSeq(s, a + 1, NextSep(s, sep, a + 1) - 1))

NoUser == [set |-> FALSE, userId |-> "", name |-> "", testUser |-> FALSE]

\* auth(req, res, next): the outcome for one Authorization header
auth(authHeader) ==
    IF ~TruthyChars(authHeader) \/ ~startsWith(authHeader.str, Bearer)
    THEN [err |-> "Unauthenticated", next |-> FALSE, user |-> NoUser]
    ELSE LET token == SplitSecond(authHeader.str, " ") IN
         IF Verifies(token)
         THEN LET payload == Payload(token.str[1]) IN
              [err |-> "", next |-> TRUE,
               user |-> [set |-> TRUE, userId |-> payload.userId,
                         name |-> payload.name,
                         testUser |-> payload.userId = DemoId]]
         ELSE [err |-> "Unauthenticated", next |-> FALSE, user |-> NoUser]

\* a test-user middleware that lets every account through
testUserMiddlewareOff(reqUser) == FALSE

\* testUserMiddleware(req, res, next): TRUE when it throws BadRequest
testUserMiddleware(reqUser) == reqUser.testUser

----------------------------------------------------------------------------
(* The User model *)

Emails == {"a@x.io", "b@x.io", "c@x.io"}

\* the length of each text the model submits for a User field
StrLen(s) ==
    CASE s = "" -> 0
      [] s = "al" -> 2
      [] s \in {"ann", "bob", "abc", "lee"} -> 3
      [] s = "nope" -> 4
      [] s \in {"smith", "paris"} -> 5
      [] s \in Emails -> 6
      [] s \in {"secret1", "my city"} -> 7
      [] s \in {"lastname", "hunter22"} -> 8

\* the email `match` regular expression
MatchesEmail(s) == s \in Emails

\* a password field: the text first assigned and the salts of the hashes
\* applied to it since; no salt means plaintext
Plain(p) == [text |-> p, salts |-> <<>>]
Salts == {"salt1", "salt2"}

\* bcrypt.hash(value, salt)
bcryptHash(pw, salt) == [text |-> pw.text, salts |-> Append(pw.salts, salt)]

\* bcrypt.compare(candidate, stored): hash the candidate with the stored
\* hash's salt and compare; a stored value that is no hash never matches
comparePassword(candidate, stored) ==
    /\ Len(stored.salts) >= 1
    /\ bcryptHash(Plain(candidate), stored.salts[1]) = stored

NoDoc == [exists |-> FALSE]

\* new User({ ...req.body }): schema defaults for lastname and location;
\* every path set is modified
NewUser(id, body) ==
    [exists |-> TRUE, id |-> id, name |-> body.name, lastname |-> "lastname",
     location |-> "my city", email |-> body.email,
     password |-> Plain(body.password),
     modified |-> {"name", "lastname", "location", "email", "password"}]

\* the schema validators of the modified paths (password: on the value
\* before the pre-save hook runs)
ValidUser(doc) ==
    /\ "name" \in doc.modified => StrLen(doc.name) >= 3
    /\ "lastname" \in doc.modified => StrLen(doc.lastname) >= 5
    /\ "location" \in doc.modified => StrLen(doc.location) >= 5
    /\ "email" \in doc.modified => MatchesEmail(doc.email)
    /\ "password" \in doc.modified => StrLen(doc.password.text) >= 6

\* the unique index on email
EmailTaken(id, email) ==
    \E o \in UserIds : o # id /\ users[o].exists /\ users[o].email = email

\* a pre-save hook that hashes on every save
preSaveAlways(doc, salt) ==
    [doc EXCEPT !.password = bcryptHash(doc.password, salt)]

\* UserSchema.pre('save'): hash only when the password path was modified
preSave(doc, salt) ==
    IF "password" \notin doc.modified THEN doc
    ELSE [doc EXCEPT !.password = bcryptHash(doc.password, salt)]

\* bcrypt.genSalt(10) runs only on the hashing path of the pre-save hook
genSalt(doc) == IF "password" \in doc.modified THEN Salts ELSE {"unused"}

\* what the collection stores of a saved document
Stored(doc) == [doc EXCEPT !.modified = {}]

\* document.<path> = value: the path is modified when the value differs
Assign(doc, path, old, new) ==
    IF old = new THEN doc.modified ELSE doc.modified \cup {path}

----------------------------------------------------------------------------
(* The auth controller and its routes *)

Reject(op, code, by, reqUser) ==
    last' = [op |-> op, code |-> code, by |-> by, userId |-> reqUser.userId, id |-> 0]

RegisterBodies ==
    {[name |-> "ann", email |-> e, password |-> p] :
        e \in Emails \cup {"nope"}, p \in {"secret1", "abc"}}

\* POST /register
register(body) ==
    \E id \in UserIds : \E salt \in genSalt(NewUser(id, body)) :
        /\ ~users[id].exists
        /\ Cardinality({u \in UserIds : users[u].exists}) < MaxUsers
        /\ LET doc == NewUser(id, body) IN
           IF ~ValidUser(doc) \/ EmailTaken(id, body.email)
           THEN /\ Reject("register", "BadRequest", "handler", NoUser)
                /\ UNCHANGED userVars
           ELSE LET saved == Stored(preSave(doc, salt)) IN
                /\ users' = [users EXCEPT ![id] = saved]
                /\ issued' = issued \cup {createJWT(id, saved.name)}
                /\ regLog' = [regLog EXCEPT ![id] =
                                 [done |-> TRUE, plain |-> body.password,
                                  hash |-> saved.password]]
                /\ last' = [op |-> "register", code |-> "CREATED", by |-> "handler",
                            userId |-> id, id |-> 0, token |-> createJWT(id, saved.name)]
    /\ UNCHANGED <<jobVars, pureVars>>

LoginBodies ==
    {[email |-> "a@x.io", password |-> "secret1"], [email |-> "b@x.io", password |-> "secret1"],
     [email |-> "a@x.io", password |-> "hunter22"], [email |-> "", password |-> "secret1"],
     [email |-> "a@x.io", password |-> ""]}

\* the outcome of login for one body, in the current collection
loginOutcome(body) ==
    IF body.email = "" \/ body.password = "" THEN [code |-> "BadRequest", userId |-> ""]
    ELSE LET found == {u \in UserIds : users[u].exists /\ users[u].email = body.email} IN
         IF found = {} THEN [code |-> "Unauthenticated", userId |-> ""]
         ELSE LET u == CHOOSE u \in found : TRUE IN
              IF ~comparePassword(body.password, users[u].password)
              THEN [code |-> "Unauthenticated", userId |-> ""]
              ELSE [code |-> "OK", userId |-> u]

\* POST /login
login(body) ==
    /\ LET r == loginOutcome(body) IN
       IF r.code # "OK"
       THEN /\ Reject("login", r.code, "handler", NoUser)
            /\ UNCHANGED issued
       ELSE /\ issued' = issued \cup {createJWT(r.userId, users[r.userId].name)}
            /\ last' = [op |-> "login", code |-> "OK", by |-> "handler",
                        userId |-> r.userId, id |-> 0,
                        token |-> createJWT(r.userId, users[r.userId].name)]
    /\ UNCHANGED <<users, regLog, jobVars, pureVars>>

UpdateUserBodies ==
    {[email |-> "a@x.io", lastName |-> "smith", location |-> "paris", name |-> "bob"],
     [email |-> "b@x.io", lastName |-> "smith", location |-> "paris", name |-> "ann"],
     [email |-> "a@x.io", lastName |-> "lee", location |-> "paris", name |-> "ann"],
     [email |-> "a@x.io", lastName |-> "", location |-> "paris", name |-> "ann"]}

\* updateUser, once both middleware have called next
updateUser(reqUser, body) ==
    IF body.email = "" \/ body.lastName = "" \/ body.location = "" \/ body.name = ""
    THEN /\ Reject("updateUser", "BadRequest", "handler", reqUser)
         /\ UNCHANGED userVars
    ELSE LET user == users[reqUser.userId]
             a1 == [user EXCEPT !.modified = Assign(user, "email", user.email, body.email),
                                !.email = body.email]
             a2 == [a1 EXCEPT !.modified = Assign(a1, "lastname", a1.lastname, body.lastName),
                              !.lastname = body.lastName]
             a3 == [a2 EXCEPT !.modified = Assign(a2, "location", a2.location, body.location),
                              !.location = body.location]
             doc == [a3 EXCEPT !.modified = Assign(a3, "name", a3.name, body.name),
                               !.name = body.name]
         IN
         \E salt \in genSalt(doc) :
            IF ~ValidUser(doc) \/ EmailTaken(reqUser.userId, doc.email)
            THEN /\ Reject("updateUser", "BadRequest", "handler", reqUser)
                 /\ UNCHANGED userVars
            ELSE LET saved == Stored(preSave(doc, salt)) IN
                 /\ users' = [users EXCEPT ![reqUser.userId] = saved]
                 /\ issued' = issued \cup {createJWT(reqUser.userId, saved.name)}
                 /\ UNCHANGED regLog
                 /\ last' = [op |-> "updateUser", code |-> "OK", by |-> "handler",
                             userId |-> reqUser.userId, id |-> 0,
                             token |-> createJWT(reqUser.userId, saved.name)]

BearerHeader(t) == Chars(Bearer \o <<" ", t>>)

\* the Authorization headers clients send to the routes: one per token the
\* server issued, and none at all
RouteHeaders == {BearerHeader(t) : t \in issued} \cup {Undefined}

\* router.patch('/updateUser', authenticateUser, testUser, updateUser)
UpdateUserRoute(h, body) ==
    /\ LET a == auth(h) IN
       IF ~a.next
       THEN /\ Reject("updateUser", a.err, "auth", a.user)
            /\ UNCHANGED userVars
       ELSE IF testUserMiddleware(a.user)
       THEN /\ Reject("updateUser", "BadRequest", "testUser", a.user)
            /\ UNCHANGED userVars
       ELSE updateUser(a.user, body)
    /\ UNCHANGED <<jobVars, pureVars>>

----------------------------------------------------------------------------
(* The Job model *)

Statuses == {"pending", "interview", "declined"}
JobTypes == {"full-time", "part-time", "internship", "contract"}

Dev == <<"d", "e", "v">>
Ops == <<"O", "p", "s">>

\* the characters of the model's positions and searches, in code-unit order
Alphabet == <<"D", "O", "P", "S", "d", "e", "o", "p", "s", "v">>
Ord(c) == CHOOSE i \in 1..Len(Alphabet) : Alphabet[i] = c
Lower(c) ==
    CASE c = "D" -> "d" [] c = "O" -> "o" [] c = "P" -> "p" [] c = "S" -> "s"
      [] OTHER -> c
LowerAll(s) == [i \in 1..Len(s) |-> Lower(s[i])]

\* the binary string order the storage layer sorts text by
RECURSIVE StrLeq(_, _)
StrLeq(a, b) ==
    IF a = <<>> THEN TRUE
    ELSE IF b = <<>> THEN FALSE
    ELSE IF a[1] # b[1] THEN Ord(a[1]) < Ord(b[1])
    ELSE StrLeq(Tail(a), Tail(b))

\* { $regex: search, $options: 'i' } for a search of plain letters:
\* a case-insensitive substring match
RegexI(text, search) ==
    \E i \in 1..(Len(text) - Len(search) + 1) :
        SubSeq(LowerAll(text), i, i + Len(search) - 1) = LowerAll(search)

\* new Job(body): the schema's paths only, with its defaults
NewJob(id, body) ==
    [_id |-> id,
     company |-> IF "company" \in DOMAIN body THEN body.company ELSE "",
     position |-> IF "position" \in DOMAIN body THEN body.position ELSE <<>>,
     status |-> IF "status" \in DOMAIN body THEN body.status ELSE "pending",
     jobType |-> IF "jobType" \in DOMAIN body THEN body.jobType ELSE "full-time",
     createdBy |-> body.createdBy,
     createdAt |-> id]

\* the schema validators: company and position required, status and
\* jobType one of their enum values, createdBy required
ValidJob(doc) ==
    /\ doc.company # ""
    /\ doc.position # <<>>
    /\ doc.status \in Statuses
    /\ doc.jobType \in JobTypes
    /\ doc.createdBy \in UserIds

\* the document after $set of every schema path the update carries
ApplyUpdate(doc, body) ==
    [doc EXCEPT
        !.company = IF "company" \in DOMAIN body THEN body.company ELSE @,
        !.position = IF "position" \in DOMAIN body THEN body.position ELSE @,
        !.status = IF "status" \in DOMAIN body THEN body.status ELSE @,
        !.jobType = IF "jobType" \in DOMAIN body THEN body.jobType ELSE @,
        !.createdBy = IF "createdBy" \in DOMAIN body THEN body.createdBy ELSE @]

\* Mongoose's cast of a value to ObjectId: a value that has an _id is cast
\* to that _id, whatever else it holds
castObjectId(value) == value._id

\* Model.findById...(id): the filter is { _id: id } with id cast to ObjectId
findByIdFilter(id) == [_id |-> castObjectId(id)]

\* the documents a filter of equalities selects
MatchFilter(filter) ==
    {j \in jobs : \A k \in DOMAIN filter : j[k] = filter[k]}

----------------------------------------------------------------------------
(* Pagination (getAllJobs) *)

DefaultLimit == 10

\* const jobsPerPage = Number(limit) || 10
jobsPerPage(limit) == OrElse(Number(limit), DefaultLimit)

\* const jobsToSkip = (Number(page) - 1) * jobsPerPage || 0
jobsToSkip(page, limit) ==
    LET p == Number(page) IN
    OrElse(IF p.nan THEN NaN ELSE Num((p.val - 1) * jobsPerPage(limit)), 0)

Str1(a) == Chars(<<a>>)
Str2(a, b) == Chars(<<a, b>>)

PageStrings ==
    {Undefined, Chars(<<>>), Str1("0"), Str1("1"), Str1("2"), Str1("3"), Str2("1", "0"),
     Str2("-", "1"), Str2("-", "2"), Str2("1", "x"), Chars(<<"a", "b", "c">>)}
LimitStrings ==
    {Undefined, Chars(<<>>), Str1("0"), Str1("1"), Str1("2"), Str1("5"), Str2("1", "0"),
     Str2("-", "1"), Str2("-", "5"), Chars(<<"a", "b", "c">>)}

\* the pagination lines of getAllJobs applied to one page/limit pair
Paginate ==
    /\ ~paging.done
    /\ paging' = [done |-> TRUE, jobsPerPage |-> jobsPerPage(query.limit),
                  jobsToSkip |-> jobsToSkip(query.page, query.limit)]
    /\ UNCHANGED <<userVars, jobVars, last, mwReq, mwOut, query>>

\* the next request's page and limit
NextQuery ==
    /\ paging.done
    /\ \E pg \in PageStrings, lm \in LimitStrings : query' = [page |-> pg, limit |-> lm]
    /\ paging' = [done |-> FALSE]
    /\ UNCHANGED <<userVars, jobVars, last, mwReq, mwOut>>

----------------------------------------------------------------------------
(* The jobs controller *)

JobIds == 1..MaxJobs

\* a response: the route, the status, who sent it (a middleware or the
\* handler), req.user.userId and req.params.id
Res(op, code, by, reqUser, id) ==
    [op |-> op, code |-> code, by |-> by, userId |-> reqUser.userId, id |-> id]

CreateBodies ==
    {[company |-> "acme", position |-> Dev],
     [company |-> "acme", position |-> Ops, status |-> "interview",
      jobType |-> "part-time", createdBy |-> "u2"],
     [company |-> "acme", status |-> "done"]}

\* createJob, once the middleware have called next
createJob(reqUser, reqBody) ==
    LET body == [k \in DOMAIN reqBody \cup {"createdBy"} |->
                    IF k = "createdBy" THEN reqUser.userId ELSE reqBody[k]]
        doc == NewJob(nextJobId, body)
    IN
    /\ nextJobId <= MaxJobs
    /\ IF ~ValidJob(doc)
       THEN /\ last' = Res("createJob", "BadRequest", "handler", reqUser, 0)
            /\ UNCHANGED <<jobs, nextJobId, pending>>
       ELSE /\ jobs' = jobs \cup {doc}
            /\ nextJobId' = nextJobId + 1
            /\ UNCHANGED pending
            /\ last' = Res("createJob", "CREATED", "handler", reqUser, 0) @@ [job |-> doc]

\* getJob
getJob(reqUser, jobId) ==
    LET found == MatchFilter([_id |-> jobId, createdBy |-> reqUser.userId]) IN
    /\ IF found = {}
       THEN last' = Res("getJob", "NotFound", "handler", reqUser, jobId)
       ELSE \E job \in found :
               last' = Res("getJob", "OK", "handler", reqUser, jobId) @@ [job |-> job]
    /\ UNCHANGED jobVars

UpdateBodies ==
    {[status |-> "declined"],
     [status |-> "done"],
     [company |-> "", position |-> Ops],
     [createdBy |-> "u2"]}

\* updateJob
updateJob(reqUser, jobId, body) ==
    IF ("company" \in DOMAIN body /\ body.company = "")
        \/ ("position" \in DOMAIN body /\ body.position = <<>>)
    THEN /\ last' = Res("updateJob", "BadRequest", "handler", reqUser, jobId)
         /\ UNCHANGED jobVars
    ELSE LET found == MatchFilter(findByIdFilter([_id |-> jobId, createdBy |-> reqUser.userId])) IN
         IF found = {}
         THEN /\ last' = Res("updateJob", "NotFound", "handler", reqUser, jobId)
              /\ UNCHANGED jobVars
         ELSE \E old \in found :
                LET job == ApplyUpdate(old, body) IN
                IF ~ValidJob(job)
                THEN /\ last' = Res("updateJob", "BadRequest", "handler", reqUser, jobId)
                     /\ UNCHANGED jobVars
                ELSE /\ jobs' = (jobs \ {old}) \cup {job}
                     /\ UNCHANGED pending
                     /\ UNCHANGED nextJobId
                     /\ last' = Res("updateJob", "OK", "handler", reqUser, jobId) @@ [job |-> job]

\* deleteJob
deleteJob(reqUser, jobId) ==
    LET found == MatchFilter(findByIdFilter([_id |-> jobId, createdBy |-> reqUser.userId])) IN
    IF found = {}
    THEN /\ last' = Res("deleteJob", "NotFound", "handler", reqUser, jobId)
         /\ UNCHANGED jobVars
    ELSE \E job \in found :
            /\ jobs' = jobs \ {job}
            /\ UNCHANGED pending
            /\ UNCHANGED nextJobId
            /\ last' = Res("deleteJob", "OK", "handler", reqUser, jobId)

\* an aggregation whose $group counts a status once however many jobs have it
StatusGroupsOnce(userId) ==
    {[_id |-> st, count |-> 1] :
        st \in {j.status : j \in {j \in jobs : j.createdBy = userId}}}

\* the $match / $group stages of the first aggregation: one group per
\* status that some job of the user has
StatusGroups(userId) ==
    {[_id |-> st, count |-> Cardinality({j \in jobs : j.createdBy = userId /\ j.status = st})] :
        st \in {j.status : j \in {j \in jobs : j.createdBy = userId}}}

\* stats.reduce(...): status -> count
ReduceStats(groups) ==
    [st \in {g._id : g \in groups} |-> (CHOOSE g \in groups : g._id = st).count]

\* stats.<key> || 0
CountOr0(stats, key) == IF key \in DOMAIN stats /\ stats[key] # 0 THEN stats[key] ELSE 0

\* showStats: defaultStats (monthlyApplications, a second read-only
\* aggregation, is left out)
showStats(reqUser) ==
    LET stats == ReduceStats(StatusGroups(reqUser.userId)) IN
    /\ last' = Res("showStats", "OK", "handler", reqUser, 0) @@
                [defaultStats |-> [pending |-> CountOr0(stats, "pending"),
                                   interview |-> CountOr0(stats, "interview"),
                                   declined |-> CountOr0(stats, "declined")]]
    /\ UNCHANGED jobVars

----------------------------------------------------------------------------
(* getAllJobs: the filter, the sort, and its two awaits *)

\* a queryObject without the createdBy condition
MatchesAnyOwner(j, userId, q) ==
    /\ TruthyChars(q.search) => RegexI(j.position, q.search.str)
    /\ (TruthyText(q.status) /\ q.status.str # "all") => j.status = q.status.str
    /\ (TruthyText(q.jobType) /\ q.jobType.str # "all") => j.jobType = q.jobType.str

\* queryObject applied to one document: owner, then the optional
\* search / status / jobType conditions
Matches(j, userId, q) ==
    /\ j.createdBy = userId
    /\ TruthyChars(q.search) => RegexI(j.position, q.search.str)
    /\ (TruthyText(q.status) /\ q.status.str # "all") => j.status = q.status.str
    /\ (TruthyText(q.jobType) /\ q.jobType.str # "all") => j.jobType = q.jobType.str

\* may a come before b under the requested sort (any order when the sort
\* is absent or not one of the four, and between equal keys)
SortLeq(a, b, sort) ==
    IF ~TruthyText(sort) THEN TRUE
    ELSE CASE sort.str = "latest" -> a.createdAt >= b.createdAt
           [] sort.str = "oldest" -> a.createdAt <= b.createdAt
           [] sort.str = "a-z" -> StrLeq(a.position, b.position)
           [] sort.str = "z-a" -> StrLeq(b.position, a.position)
           [] OTHER -> TRUE

\* the orders in which the storage layer may return a set of documents
Orderings(S, sort) ==
    {f \in [1..Cardinality(S) -> S] :
        /\ \A i, k \in 1..Cardinality(S) : i # k => f[i] # f[k]
        /\ \A i, k \in 1..Cardinality(S) : i < k => SortLeq(f[i], f[k], sort)}

Min(a, b) == IF a < b THEN a ELSE b
Abs(n) == IF n < 0 THEN 0 - n ELSE n

\* .skip(n).limit(m) for n >= 0; a negative limit is taken as its absolute
\* value by the driver
Slice(seq, n, m) == SubSeq(seq, n + 1, Min(Len(seq), n + Abs(m)))

NoQuery == [search |-> Undefined, status |-> Missing, jobType |-> Missing,
            sort |-> Missing, page |-> Undefined, limit |-> Undefined]

\* the query strings of the sequential specification
Queries ==
    {NoQuery,
     [NoQuery EXCEPT !.search = Str1("D")],
     [NoQuery EXCEPT !.status = Text("all"), !.jobType = Text("part-time")],
     [NoQuery EXCEPT !.status = Text("declined"), !.jobType = Text("all")],
     [NoQuery EXCEPT !.sort = Text("latest")],
     [NoQuery EXCEPT !.sort = Text("oldest"), !.limit = Str1("1")],
     [NoQuery EXCEPT !.sort = Text("a-z")],
     [NoQuery EXCEPT !.sort = Text("z-a"), !.page = Str1("2"), !.limit = Str1("1")],
     [NoQuery EXCEPT !.sort = Text("newest"), !.page = Str1("3"), !.limit = Str1("1")],
     [NoQuery EXCEPT !.page = Str1("0")],
     [NoQuery EXCEPT !.limit = Str2("-", "1")],
     [NoQuery EXCEPT !.page = Str1("2"), !.limit = Str2("-", "1")]}

\* the query strings of the interleaved specification
RaceQueries ==
    {NoQuery,
     [NoQuery EXCEPT !.status = Text("declined")],
     [NoQuery EXCEPT !.sort = Text("oldest"), !.limit = Str1("1")]}

\* getAllJobs up to its first await: the filter and the query chain are
\* built, countDocuments has answered, numOfPages is computed
getAllJobsCount(reqUser, q) ==
    LET totalJobs == Cardinality({j \in jobs : Matches(j, reqUser.userId, q)}) IN
    /\ ~pending.active
    /\ pending' = [active |-> TRUE, user |-> reqUser, q |-> q,
                   skip |-> jobsToSkip(q.page, q.limit),
                   limit |-> jobsPerPage(q.limit),
                   totalJobs |-> totalJobs,
                   numOfPages |-> Ceil(totalJobs, jobsPerPage(q.limit))]
    /\ UNCHANGED <<jobs, nextJobId, last>>

\* getAllJobs from its second await: the find answers (the storage layer
\* rejects a negative skip) and the response is sent
getAllJobsFind ==
    /\ pending.active
    /\ IF pending.skip < 0
       THEN last' = Res("getAllJobs", "InternalServerError", "handler", pending.user, 0) @@
                    [q |-> pending.q, numOfPages |-> pending.numOfPages]
       ELSE \E found \in Orderings({j \in jobs : Matches(j, pending.user.userId, pending.q)},
                                   pending.q.sort) :
               last' = Res("getAllJobs", "OK", "handler", pending.user, 0) @@
                       [q |-> pending.q,
                        jobs |-> Slice(found, pending.skip, pending.limit),
                        totalJobs |-> pending.totalJobs,
                        numOfPages |-> pending.numOfPages]
    /\ pending' = [active |-> FALSE]
    /\ UNCHANGED <<userVars, jobs, nextJobId, pureVars>>

----------------------------------------------------------------------------
(* The jobs routes: every route behind the authentication middleware,     *)
(* PATCH and DELETE behind the test-user middleware as well               *)

\* router.route('/').post(createJob)
CreateJobRoute(h, body) ==
    /\ LET a == auth(h) IN
       IF ~a.next
       THEN /\ last' = Res("createJob", a.err, "auth", a.user, 0)
            /\ UNCHANGED jobVars
       ELSE createJob(a.user, body)
    /\ UNCHANGED <<userVars, pureVars>>

\* router.route('/').get(getAllJobs), up to the first await
GetAllJobsRoute(h, q) ==
    /\ LET a == auth(h) IN
       IF ~a.next
       THEN /\ last' = Res("getAllJobs", a.err, "auth", a.user, 0)
            /\ UNCHANGED jobVars
       ELSE getAllJobsCount(a.user, q)
    /\ UNCHANGED <<userVars, pureVars>>

\* router.route('/stats').get(showStats)
ShowStatsRoute(h) ==
    /\ LET a == auth(h) IN
       IF ~a.next
       THEN /\ last' = Res("showStats", a.err, "auth", a.user, 0)
            /\ UNCHANGED jobVars
       ELSE showStats(a.user)
    /\ UNCHANGED <<userVars, pureVars>>

\* router.route('/:id').get(getJob)
GetJobRoute(h, jobId) ==
    /\ LET a == auth(h) IN
       IF ~a.next
       THEN /\ last' = Res("getJob", a.err, "auth", a.user, jobId)
            /\ UNCHANGED jobVars
       ELSE getJob(a.user, jobId)
    /\ UNCHANGED <<userVars, pureVars>>

\* router.route('/:id').patch(testUser, updateJob)
UpdateJobRoute(h, jobId, body) ==
    /\ LET a == auth(h) IN
       IF ~a.next
       THEN /\ last' = Res("updateJob", a.err, "auth", a.user, jobId)
            /\ UNCHANGED jobVars
       ELSE IF testUserMiddleware(a.user)
       THEN /\ last' = Res("updateJob", "BadRequest", "testUser", a.user, jobId)
            /\ UNCHANGED jobVars
       ELSE updateJob(a.user, jobId, body)
    /\ UNCHANGED <<userVars, pureVars>>

\* router.route('/:id').delete(testUser, deleteJob)
DeleteJobRoute(h, jobId) ==
    /\ LET a == auth(h) IN
       IF ~a.next
       THEN /\ last' = Res("deleteJob", a.err, "auth", a.user, jobId)
            /\ UNCHANGED jobVars
       ELSE IF testUserMiddleware(a.user)
       THEN /\ last' = Res("deleteJob", "BadRequest", "testUser", a.user, jobId)
            /\ UNCHANGED jobVars
       ELSE deleteJob(a.user, jobId)
    /\ UNCHANGED <<userVars, pureVars>>

----------------------------------------------------------------------------
(* The authentication middleware on its own *)

HeaderPrefixes ==
    {Bearer, Bearer \o <<"x">>, <<"b", "e", "a", "r", "e", "r">>,
     <<"B", "a", "s", "i", "c">>, <<>>}
HeaderSeparators == {<<>>, <<" ">>, <<" ", " ">>}
HeaderTails == {<<>>, <<" ", "x">>}

\* the Authorization headers a client may send: none, and every prefix,
\* separator, token and tail put together
Headers ==
    {Undefined} \cup
    {Chars(p \o s \o <<t>> \o e) :
        p \in HeaderPrefixes, s \in HeaderSeparators,
        t \in SignedTokens \cup ForgedTokens, e \in HeaderTails} \cup
    {Chars(p \o s) : p \in HeaderPrefixes, s \in HeaderSeparators}

\* one request through the authentication middleware
Authenticate ==
    /\ ~mwOut.done
    /\ LET a == auth(mwReq) IN
       mwOut' = [done |-> TRUE, err |-> a.err, next |-> a.next, user |-> a.user]
    /\ UNCHANGED <<userVars, jobVars, last, mwReq, query, paging>>

\* the next request arrives
NextRequest ==
    /\ mwOut.done
    /\ mwReq' \in Headers
    /\ mwOut' = [done |-> FALSE]
    /\ UNCHANGED <<userVars, jobVars, last, query, paging>>

----------------------------------------------------------------------------
(* Specifications *)

NoPending == [active |-> FALSE]
NoResponse == [op |-> "none", code |-> "", by |-> "", userId |-> "", id |-> 0]

\* no response is being written: the event loop is free to run a handler
Idle == last = NoResponse

\* the response has left and the event loop takes its next event
ResponseSent ==
    /\ ~Idle
    /\ last' = NoResponse
    /\ UNCHANGED <<userVars, jobVars, pureVars>>

\* an empty database and no request handled yet
InitEmpty ==
    /\ users = [u \in UserIds |-> NoDoc]
    /\ issued = {}
    /\ regLog = [u \in UserIds |-> [done |-> FALSE]]
    /\ jobs = {}
    /\ nextJobId = 1
    /\ pending = NoPending
    /\ last = NoResponse
    /\ mwReq = Undefined
    /\ mwOut = [done |-> FALSE]
    /\ query = [page |-> Undefined, limit |-> Undefined]
    /\ paging = [done |-> FALSE]

\* the auth routes: register, login, updateUser
NextUsers ==
    \/ Idle /\ \E body \in RegisterBodies : register(body)
    \/ Idle /\ \E body \in LoginBodies : login(body)
    \/ Idle /\ \E h \in RouteHeaders, body \in UpdateUserBodies : UpdateUserRoute(h, body)
    \/ ResponseSent

SpecUsers == InitEmpty /\ [][NextUsers]_vars

\* a registered user document
Registered(id, email, salt) ==
    [exists |-> TRUE, id |-> id, name |-> "ann", lastname |-> "lastname",
     location |-> "my city", email |-> email,
     password |-> bcryptHash(Plain("secret1"), salt), modified |-> {}]

\* the demo account and two more users have registered; no job yet
InitJobs ==
    /\ users = [u \in UserIds |->
                   CASE u = DemoId -> Registered(u, "c@x.io", "salt1")
                     [] u = "u1" -> Registered(u, "a@x.io", "salt2")
                     [] u = "u2" -> Registered(u, "b@x.io", "salt1")]
    /\ issued = {createJWT(u, "ann") : u \in UserIds}
    /\ regLog = [u \in UserIds |->
                    [done |-> TRUE, plain |-> "secret1", hash |-> users[u].password]]
    /\ jobs = {}
    /\ nextJobId = 1
    /\ pending = NoPending
    /\ last = NoResponse
    /\ mwReq = Undefined
    /\ mwOut = [done |-> FALSE]
    /\ query = [page |-> Undefined, limit |-> Undefined]
    /\ paging = [done |-> FALSE]

\* the jobs routes, one request handled at a time
Next ==
    \/ Idle /\ ~pending.active /\
          \E h \in RouteHeaders, body \in CreateBodies : CreateJobRoute(h, body)
    \/ Idle /\ ~pending.active /\
          \E h \in RouteHeaders, id \in JobIds, body \in UpdateBodies :
             UpdateJobRoute(h, id, body)
    \/ Idle /\ ~pending.active /\
          \E h \in RouteHeaders, id \in JobIds : DeleteJobRoute(h, id)
    \/ Idle /\ ~pending.active /\
          \E h \in RouteHeaders, id \in JobIds : GetJobRoute(h, id)
    \/ Idle /\ ~pending.active /\ \E h \in RouteHeaders : ShowStatsRoute(h)
    \/ Idle /\ \E h \in RouteHeaders, q \in Queries : GetAllJobsRoute(h, q)
    \/ Idle /\ getAllJobsFind
    \/ ResponseSent

Spec == InitJobs /\ [][Next]_vars

\* getAllJobs suspended at its awaits while other requests write
NextRace ==
    \/ Idle /\ \E h \in RouteHeaders, body \in CreateBodies : CreateJobRoute(h, body)
    \/ Idle /\ \E h \in RouteHeaders, id \in JobIds, body \in UpdateBodies :
                  UpdateJobRoute(h, id, body)
    \/ Idle /\ \E h \in RouteHeaders, id \in JobIds : DeleteJobRoute(h, id)
    \/ Idle /\ \E h \in RouteHeaders, q \in RaceQueries : GetAllJobsRoute(h, q)
    \/ Idle /\ getAllJobsFind
    \/ ResponseSent

SpecRace == InitJobs /\ [][NextRace]_vars

\* the routes that change documents, for every account
NextDemo ==
    \/ Idle /\ \E h \in RouteHeaders, body \in CreateBodies : CreateJobRoute(h, body)
    \/ Idle /\ \E h \in RouteHeaders, id \in JobIds, body \in UpdateBodies :
                  UpdateJobRoute(h, id, body)
    \/ Idle /\ \E h \in RouteHeaders, id \in JobIds : DeleteJobRoute(h, id)
    \/ Idle /\ \E h \in RouteHeaders, body \in UpdateUserBodies : UpdateUserRoute(h, body)
    \/ ResponseSent

SpecDemo == InitJobs /\ [][NextDemo]_vars

\* the authentication middleware applied to every header
NextMw == Authenticate \/ NextRequest

SpecMw == InitEmpty /\ [][NextMw]_vars

\* the pagination arithmetic applied to every page and limit
NextPage == Paginate \/ NextQuery

SpecPage == InitEmpty /\ [][NextPage]_vars

----------------------------------------------------------------------------
(* Properties *)

\* C1: every job a read returns to user U, and every job showStats counts
\* for U, has createdBy = U; getJob on an id whose job has another owner
\* signals NotFound.
C1_ReadsAreOwnerScoped ==
    /\ (last.op = "getAllJobs" /\ last.code = "OK") =>
          \A i \in 1..Len(last.jobs) : last.jobs[i].createdBy = last.userId
    /\ (last.op = "getJob" /\ last.code = "OK") =>
          last.job.createdBy = last.userId /\ last.job._id = last.id
    /\ (last.op = "getJob" /\ last.by = "handler"
            /\ \E j \in jobs : j._id = last.id /\ j.createdBy # last.userId) =>
          last.code = "NotFound"
    /\ (last.op = "showStats" /\ last.code = "OK") =>
          \A st \in Statuses :
             last.defaultStats[st] =
                Cardinality({j \in jobs : j.createdBy = last.userId /\ j.status = st})

\* a list that returned jobs while another user's job was stored too
C1_Witness ==
    /\ last.op = "getAllJobs" /\ last.code = "OK" /\ Len(last.jobs) >= 1
    /\ \E j \in jobs : j.createdBy # last.userId

\* C2: updateJob or deleteJob by U on the id of a job owned by another user
\* (with a body that passes the empty-field check) signals NotFound and
\* leaves the job stored as it was.
C2_WritesAreOwnerScoped ==
    [][\A j \in jobs :
          (/\ last'.op \in {"updateJob", "deleteJob"}
           /\ last'.by = "handler"
           /\ last'.code # "BadRequest"
           /\ last'.id = j._id
           /\ last'.userId # j.createdBy)
          => (last'.code = "NotFound" /\ j \in jobs')]_vars

\* the header is 'Bearer <token>' for a token the server signed
WellFormedBearer(h) == \E t \in SignedTokens : h = BearerHeader(t)

\* C3: the authentication middleware calls next exactly when the header is
\* 'Bearer <token>' with a token that verifies; otherwise it signals
\* Unauthenticated and sets no req.user; when it calls next, req.user is
\* the token's payload with testUser set for the demo account id.
C3_AuthIffWellFormed ==
    mwOut.done =>
        /\ mwOut.next <=> WellFormedBearer(mwReq)
        /\ ~mwOut.next => (mwOut.err = "Unauthenticated" /\ ~mwOut.user.set)
        /\ mwOut.next =>
              \E t \in SignedTokens :
                 /\ mwOut.user.userId = Payload(t).userId
                 /\ mwOut.user.name = Payload(t).name
                 /\ mwOut.user.testUser = (mwOut.user.userId = DemoId)

C5_DemoIsReadOnly ==
    [][(last'.op \in {"updateUser", "updateJob", "deleteJob"} /\ last'.userId = DemoId)
          => (/\ last'.code = "BadRequest"
              /\ last'.by = "testUser"
              /\ users' = users
              /\ jobs' = jobs)]_vars

\* the demo account asked to change or delete a stored job of another user
C5_Witness ==
    /\ last.op \in {"updateJob", "deleteJob"}
    /\ last.userId = DemoId
    /\ last.by = "testUser"
    /\ \E j \in jobs : j._id = last.id /\ j.createdBy # DemoId

\* C6: the skip is 0 when page is absent, non-numeric or less than 1 and
\* (page - 1) * limit otherwise, with limit = 10 when limit is absent or
\* non-numeric; it is never negative.
C6_SkipNeverNegative ==
    paging.done =>
        LET p == Number(query.page) IN
        /\ Number(query.limit).nan => paging.jobsPerPage = DefaultLimit
        /\ paging.jobsToSkip =
              IF p.nan \/ p.val < 1 THEN 0 ELSE (p.val - 1) * paging.jobsPerPage
        /\ paging.jobsToSkip >= 0

\* C7: totalJobs counts the records matching the filter, numOfPages is
\* ceil(totalJobs / limit), a non-negative integer that is 0 when nothing
\* matches, and a page beyond numOfPages gets an empty list, not an error.
C7_PagesAreConsistent ==
    (last.op = "getAllJobs" /\ last.by = "handler") =>
        /\ last.code = "OK" =>
              /\ last.totalJobs =
                    Cardinality({j \in jobs : Matches(j, last.userId, last.q)})
              /\ last.numOfPages = Ceil(last.totalJobs, jobsPerPage(last.q.limit))
              /\ last.numOfPages >= 0
              /\ last.totalJobs = 0 => last.numOfPages = 0
        /\ (~Number(last.q.page).nan /\ Number(last.q.page).val > last.numOfPages) =>
              (last.code = "OK" /\ last.jobs = <<>>)

C9_ListIsAtomic ==
    (last.op = "getAllJobs" /\ last.code = "OK") =>
        /\ Len(last.jobs) <= last.totalJobs
        /\ (jobsToSkip(last.q.page, last.q.limit) = 0
              /\ jobsPerPage(last.q.limit) >= last.totalJobs) =>
              Len(last.jobs) = last.totalJobs

\* C10: a job's createdBy never changes: createJob stores the requesting
\* user's id, and no updateJob by the job's owner, whatever the body,
\* changes the createdBy of the job.
C10_OwnerNeverChanges ==
    [][/\ \A k \in jobs' :
             (last'.op = "createJob" /\ \A j \in jobs : j._id # k._id) =>
                k.createdBy = last'.userId
       /\ \A j \in jobs, k \in jobs' :
             (last'.op = "updateJob" /\ last'.userId = j.createdBy /\ k._id = j._id) =>
                k.createdBy = j.createdBy]_vars

====
